---- MODULE Spec2Model ----
(***************************************************************************)
(* The engine response watcher of                                          *)
(* packages/server/api/src/app/workers/flow-worker/engine-response-watcher *)
(* as a state machine: several processes, each with its own HANDLER_ID and *)
(* its own `listeners` map, connected by the pub/sub transport.            *)
(***************************************************************************)
EXTENDS Integers, Sequences, FiniteSets, TLC

(* ---------------------------- bounds ---------------------------------- *)
\* number of listen() calls (promises created) in one behaviour
MaxWaits == 2
\* number of payloads the transport holds in flight, over all channels
MaxInFlight == 1
\* operations in an SvgDrawer built by the builder methods
MaxOps == 4
\* rows in the runs table
NumRuns == 2

(* ------------------------ JavaScript values --------------------------- *)
Undefined == [t |-> "undefined", v |-> 0]
Null == [t |-> "null", v |-> 0]
NaN == [t |-> "NaN", v |-> 0]
True == [t |-> "boolean", v |-> 1]
Num(n) == [t |-> "number", v |-> n]
Str(s) == [t |-> "string", v |-> s]
Obj(o) == [t |-> "object", v |-> o]

\* o.k in JavaScript, for an o that is neither null nor undefined
Get(o, k) == IF o.t = "object" /\ k \in DOMAIN o.v THEN o.v[k] ELSE Undefined
\* reading a property of null or undefined throws TypeError
GetThrows(o) == o.t \in {"null", "undefined"}
\* `${x}` throws TypeError when x cannot be converted to a string: a parsed
\* object with a member toString of its own (never a function, so the
\* conversion goes on to valueOf, which returns the object)
ToStringThrows(x) == x.t = "object" /\ "toString" \in DOMAIN x.v

\* JSON.stringify's value conversion: NaN becomes null, members whose value
\* is undefined are left out, everything else is kept
RECURSIVE SerializeJSONProperty(_)
SerializeJSONProperty(x) ==
    CASE x.t = "NaN" -> Null
      [] x.t = "object" ->
            Obj([k \in {j \in DOMAIN x.v : x.v[j].t # "undefined"} |->
                    SerializeJSONProperty(x.v[k])])
      [] OTHER -> x

\* a payload on the wire: a JSON text (given by the document it denotes) or
\* a text that is not JSON
JSONstringify(x) == [kind |-> "json", doc |-> SerializeJSONProperty(x)]
JSONparseThrows(message) == message.kind # "json"
JSONparse(message) == message.doc

(* -------------------------- program constants ------------------------- *)
NO_CONTENT == 204

\* the processes, named by their HANDLER_ID (apId() is unique per process)
HANDLER_IDS == {"H1", "H2"}
\* correlation ids callers use
RequestIds == {"c1", "c2"}
\* the listen(requestId, timeoutRequest) calls made, by process: two ids are
\* in use on H1, c1 with and without a timeout, and c1 is in use on H2 too
ListenCalls == {<<"H1", "c1", TRUE>>, <<"H1", "c1", FALSE>>,
                <<"H1", "c2", TRUE>>, <<"H2", "c1", FALSE>>}

EngineHttpResponse(status, body, headers) ==
    Obj([status |-> status, body |-> body, headers |-> headers])

defaultResponse == EngineHttpResponse(Num(NO_CONTENT), Obj(<<>>), Obj(<<>>))

\* the Results publishers send: the spec's scenario, and one whose body is
\* the number NaN
ROk == EngineHttpResponse(Num(200), Obj([ok |-> True]), Obj(<<>>))
RNaN == EngineHttpResponse(Num(200), NaN, Obj(<<>>))
Results == {ROk, RNaN}
\* the publish(requestId, workerHandlerId, httpResponse) calls made: both
\* Results for c1 and one for c2, all to H1, the process that is published to
PublishCalls == {<<"c1", "H1", ROk>>, <<"c1", "H1", RNaN>>, <<"c2", "H1", ROk>>}
\* the calls during which the transport's publish fails: a failed publish
\* ends the same way whatever its arguments
FailingPublishCalls == {<<"c1", "H1", ROk>>}

EngineResponseWithId(requestId, httpResponse) ==
    Obj([requestId |-> Str(requestId), httpResponse |-> httpResponse])

\* a payload another party may put on a channel: a text that is not JSON
NotJson == [kind |-> "text", doc |-> Str("not json")]
\* the JSON text null
NullJson == [kind |-> "json", doc |-> Null]
\* a JSON text whose requestId cannot be converted to a string
BadIdJson == [kind |-> "json", doc |-> Obj([requestId |-> Obj([toString |-> Null])])]
\* what a party other than publish puts on a channel
ForeignPayloads == {NotJson, NullJson, BadIdJson}
\* and on which channel it puts it
ForeignPublishCalls == {<<"H1", NotJson>>, <<"H2", NullJson>>, <<"H2", BadIdJson>>}
\* the init and shutdown calls made, with whether the transport's call
\* succeeds: a failed call ends the same way on either process
TransportCalls == {<<"H1", TRUE>>, <<"H2", TRUE>>, <<"H1", FALSE>>}

\* every payload that can be on a channel
Payloads ==
    {JSONstringify(EngineResponseWithId(p[1], p[3])) : p \in PublishCalls} \cup ForeignPayloads

(* ------------------------------- state -------------------------------- *)
VARIABLES
    listeners,      \* per process: requestId -> the wait whose resolver is stored, 0 = no entry
    waits,          \* the promises listen() returned, in creation order
    subscribed,     \* per process: is engine-run:sync:<HANDLER_ID> subscribed
    channel,        \* per channel: payloads in flight to its subscriber
    transportError, \* did the last transport call fail
    outcome,        \* the last operation run and how it ended: "ok", "rejected" or the error thrown
    drawer,         \* canvas: the operations of the SvgDrawer a method is called on
    returned,       \* canvas: the operations of the SvgDrawer the last call returned
    runs,           \* runs table: the FlowRun rows shown
    lastRerun       \* runs table: the last rerun request sent, and its click event

Outcome(op, result) == [op |-> op, result |-> result]

vars == <<listeners, waits, subscribed, channel, transportError, outcome>>
svgVars == <<drawer, returned>>
runsVars == <<runs, lastRerun>>
allVars == <<vars, svgVars, runsVars>>

WaitIds == 1..Len(waits)

InFlight == LET RECURSIVE Sum(_)
                Sum(S) == IF S = {} THEN 0
                          ELSE LET h == CHOOSE x \in S : TRUE
                               IN Cardinality(channel[h]) + Sum(S \ {h})
            IN Sum(HANDLER_IDS)

\* the watcher as the module is loaded: nothing registered, not subscribed
WatcherInit ==
    /\ listeners = [h \in HANDLER_IDS |-> [c \in RequestIds |-> 0]]
    /\ waits = <<>>
    /\ subscribed = [h \in HANDLER_IDS |-> FALSE]
    /\ channel = [h \in HANDLER_IDS |-> {}]
    /\ transportError = FALSE
    /\ outcome = Outcome("none", "ok")

\* no rerun has been requested from the runs table
NoRerun == [id |-> 0, strategy |-> "none", propagationStopped |-> FALSE]

\* SvgDrawer.empty(), and a runs table without rows
Init ==
    /\ WatcherInit
    /\ drawer = <<>>
    /\ returned = <<>>
    /\ runs = <<>>
    /\ lastRerun = NoRerun

(* ------------------------- promise and timer -------------------------- *)
\* a resolver that is not single-use: a later call replaces the result
resolveOverwrites(wait, v, state) == [wait EXCEPT !.state = state, !.value = v]

\* resolve(v) of the promise of listen(): only the first call settles it
resolve(wait, v, state) ==
    IF wait.state = "ARMED" THEN [wait EXCEPT !.state = state, !.value = v]
    ELSE wait

clearTimeout(timeout) == IF timeout = "armed" THEN "cleared" ELSE timeout

\* a handler that hands the caller the fallback instead of what arrived
responseHandlerFallback(wait, flowResponse) ==
    resolve([wait EXCEPT !.timeout = clearTimeout(@)], defaultResponse, "DELIVERED")

\* a handler that resolves and leaves the timer running
responseHandlerKeepsTimer(wait, flowResponse) ==
    resolve(wait, flowResponse, "DELIVERED")

responseHandler(wait, flowResponse) ==
    resolve([wait EXCEPT !.timeout = clearTimeout(@)], flowResponse, "DELIVERED")

\* the function stored in listeners: resolve itself, or responseHandler
listener(wait, flowResponse) ==
    IF wait.timeoutRequest THEN responseHandler(wait, flowResponse)
    ELSE resolve(wait, flowResponse, "DELIVERED")

\* listeners.get(key) for a key read from a parsed message
listenersGet(h, key) ==
    IF key.t = "string" /\ key.v \in RequestIds THEN listeners[h][key.v] ELSE 0

(* ------------------------------ operations ---------------------------- *)
\* an init that catches the failure of subscribe and returns normally
initSwallows(h, subscribeOk) ==
    /\ transportError' = ~subscribeOk
    /\ subscribed' = [subscribed EXCEPT ![h] = @ \/ subscribeOk]
    /\ outcome' = Outcome("init", "ok")
    /\ UNCHANGED <<listeners, waits, channel>>
    /\ UNCHANGED <<svgVars, runsVars>>

init(h, subscribeOk) ==
    /\ transportError' = ~subscribeOk
    /\ subscribed' = [subscribed EXCEPT ![h] = @ \/ subscribeOk]
    /\ outcome' = Outcome("init", IF subscribeOk THEN "ok" ELSE "rejected")
    /\ UNCHANGED <<listeners, waits, channel>>
    /\ UNCHANGED <<svgVars, runsVars>>

\* a listen that arms the timer whatever timeoutRequest says
listenAlwaysArms(h, requestId, timeoutRequest) ==
    /\ Len(waits) < MaxWaits
    /\ waits' = Append(waits, [handler |-> h, requestId |-> requestId,
                               timeoutRequest |-> timeoutRequest,
                               state |-> "ARMED", value |-> Undefined,
                               timeout |-> "armed"])
    /\ listeners' = [listeners EXCEPT ![h][requestId] = Len(waits) + 1]
    /\ transportError' = FALSE
    /\ outcome' = Outcome("listen", "ok")
    /\ UNCHANGED <<subscribed, channel>>
    /\ UNCHANGED <<svgVars, runsVars>>

\* a listen that is handed at once an envelope for the id that the process
\* has been sent
listenReplays(h, requestId, timeoutRequest) ==
    LET held == {m \in channel[h] :
                    /\ ~JSONparseThrows(m)
                    /\ Get(JSONparse(m), "requestId") = Str(requestId)}
    IN /\ Len(waits) < MaxWaits
       /\ waits' = Append(waits,
            IF held = {}
            THEN [handler |-> h, requestId |-> requestId,
                  timeoutRequest |-> timeoutRequest,
                  state |-> "ARMED", value |-> Undefined,
                  timeout |-> IF timeoutRequest THEN "armed" ELSE "none"]
            ELSE [handler |-> h, requestId |-> requestId,
                  timeoutRequest |-> timeoutRequest,
                  state |-> "DELIVERED",
                  value |-> Get(JSONparse(CHOOSE m \in held : TRUE), "httpResponse"),
                  timeout |-> "none"])
       /\ listeners' = IF held = {}
                       THEN [listeners EXCEPT ![h][requestId] = Len(waits) + 1]
                       ELSE listeners
       /\ transportError' = FALSE
       /\ outcome' = Outcome("listen", "ok")
       /\ UNCHANGED <<subscribed, channel>>
       /\ UNCHANGED <<svgVars, runsVars>>

\* a listen that keeps the resolver already stored for the id
listenKeepsFirst(h, requestId, timeoutRequest) ==
    /\ Len(waits) < MaxWaits
    /\ waits' = Append(waits, [handler |-> h, requestId |-> requestId,
                               timeoutRequest |-> timeoutRequest,
                               state |-> "ARMED", value |-> Undefined,
                               timeout |-> IF timeoutRequest THEN "armed" ELSE "none"])
    /\ listeners' = [listeners EXCEPT ![h][requestId] =
                        IF @ = 0 THEN Len(waits) + 1 ELSE @]
    /\ transportError' = FALSE
    /\ outcome' = Outcome("listen", "ok")
    /\ UNCHANGED <<subscribed, channel>>
    /\ UNCHANGED <<svgVars, runsVars>>

listen(h, requestId, timeoutRequest) ==
    /\ Len(waits) < MaxWaits
    /\ waits' = Append(waits, [handler |-> h, requestId |-> requestId,
                               timeoutRequest |-> timeoutRequest,
                               state |-> "ARMED", value |-> Undefined,
                               timeout |-> IF timeoutRequest THEN "armed" ELSE "none"])
    /\ listeners' = [listeners EXCEPT ![h][requestId] = Len(waits) + 1]
    /\ transportError' = FALSE
    /\ outcome' = Outcome("listen", "ok")
    /\ UNCHANGED <<subscribed, channel>>
    /\ UNCHANGED <<svgVars, runsVars>>

\* a callback that clears the Registry entry and forgets to resolve
timeoutCallbackDeleteOnly(w) ==
    /\ w \in WaitIds
    /\ waits[w].timeout = "armed"
    /\ waits' = [waits EXCEPT ![w].timeout = "fired"]
    /\ listeners' = [listeners EXCEPT ![waits[w].handler][waits[w].requestId] =
                        IF @ = w THEN 0 ELSE @]
    /\ transportError' = FALSE
    /\ outcome' = Outcome("timeout", "ok")
    /\ UNCHANGED <<subscribed, channel>>
    /\ UNCHANGED <<svgVars, runsVars>>

\* a callback that also deletes whatever the Registry holds for the id
timeoutCallbackDeletes(w) ==
    /\ w \in WaitIds
    /\ waits[w].timeout = "armed"
    /\ waits' = [waits EXCEPT ![w] = resolve([@ EXCEPT !.timeout = "fired"],
                                             defaultResponse, "TIMED_OUT")]
    /\ listeners' = [listeners EXCEPT ![waits[w].handler][waits[w].requestId] = 0]
    /\ transportError' = FALSE
    /\ outcome' = Outcome("timeout", "ok")
    /\ UNCHANGED <<subscribed, channel>>
    /\ UNCHANGED <<svgVars, runsVars>>

\* setTimeout's callback of the wait w
timeoutCallback(w) ==
    /\ w \in WaitIds
    /\ waits[w].timeout = "armed"
    /\ waits' = [waits EXCEPT ![w] = resolve([@ EXCEPT !.timeout = "fired"],
                                             defaultResponse, "TIMED_OUT")]
    /\ transportError' = FALSE
    /\ outcome' = Outcome("timeout", "ok")
    /\ UNCHANGED <<listeners, subscribed, channel>>
    /\ UNCHANGED <<svgVars, runsVars>>

\* pubSub.publish: the payload reaches the current subscriber of the channel
pubSubPublish(ch, payload) ==
    IF subscribed[ch] THEN [channel EXCEPT ![ch] = @ \cup {payload}] ELSE channel

\* a publish that stores the message for the target whether or not it is
\* subscribed
publishQueued(requestId, workerHandlerId, httpResponse, publishOk) ==
    LET message == EngineResponseWithId(requestId, httpResponse)
    IN /\ ~publishOk \/ InFlight < MaxInFlight
       /\ channel' = IF publishOk
                     THEN [channel EXCEPT ![workerHandlerId] = @ \cup {JSONstringify(message)}]
                     ELSE channel
       /\ transportError' = ~publishOk
       /\ outcome' = Outcome("publish", IF publishOk THEN "ok" ELSE "rejected")
       /\ UNCHANGED <<listeners, waits, subscribed>>
       /\ UNCHANGED <<svgVars, runsVars>>

\* a publish on one channel shared by all processes
publishBroadcast(requestId, workerHandlerId, httpResponse, publishOk) ==
    LET message == EngineResponseWithId(requestId, httpResponse)
    IN /\ ~publishOk \/ InFlight < MaxInFlight
       /\ channel' = [h \in HANDLER_IDS |->
                        IF publishOk /\ subscribed[h]
                        THEN channel[h] \cup {JSONstringify(message)}
                        ELSE channel[h]]
       /\ transportError' = ~publishOk
       /\ outcome' = Outcome("publish", IF publishOk THEN "ok" ELSE "rejected")
       /\ UNCHANGED <<listeners, waits, subscribed>>
       /\ UNCHANGED <<svgVars, runsVars>>

\* publishOk: does the transport's publish succeed; its failure rejects the
\* awaited call, and so publish
publish(requestId, workerHandlerId, httpResponse, publishOk) ==
    LET message == EngineResponseWithId(requestId, httpResponse)
        next == IF publishOk
                THEN pubSubPublish(workerHandlerId, JSONstringify(message))
                ELSE channel
    IN /\ \/ next = channel
          \/ InFlight < MaxInFlight
       /\ channel' = next
       /\ transportError' = ~publishOk
       /\ outcome' = Outcome("publish", IF publishOk THEN "ok" ELSE "rejected")
       /\ UNCHANGED <<listeners, waits, subscribed>>
       /\ UNCHANGED <<svgVars, runsVars>>

\* another party publishes on the channel of h, one payload at a time: none
\* of its payloads is in flight when it publishes
foreignPublish(h, payload) ==
    /\ \A g \in HANDLER_IDS : channel[g] \cap ForeignPayloads = {}
    /\ InFlight < MaxInFlight
    /\ subscribed[h]
    /\ channel' = pubSubPublish(h, payload)
    /\ transportError' = FALSE
    /\ outcome' = Outcome("foreign", "ok")
    /\ UNCHANGED <<listeners, waits, subscribed>>
    /\ UNCHANGED <<svgVars, runsVars>>

\* a callback that calls the listener without testing that there is one
messageHandlerUnguarded(h, message, again) ==
    /\ subscribed[h]
    /\ message \in channel[h]
    /\ channel' = IF again THEN channel ELSE [channel EXCEPT ![h] = @ \ {message}]
    /\ transportError' = FALSE
    /\ IF JSONparseThrows(message)
       THEN /\ outcome' = Outcome("message", "SyntaxError")
            /\ UNCHANGED <<listeners, waits>>
       ELSE IF GetThrows(JSONparse(message))
       THEN /\ outcome' = Outcome("message", "TypeError")
            /\ UNCHANGED <<listeners, waits>>
       ELSE LET parsedMessasge == JSONparse(message)
                requestId == Get(parsedMessasge, "requestId")
                w == listenersGet(h, requestId)
            IN IF w # 0
               THEN /\ waits' = [waits EXCEPT ![w] =
                                   listener(@, Get(parsedMessasge, "httpResponse"))]
                    /\ listeners' = [listeners EXCEPT ![h][requestId.v] = 0]
                    /\ outcome' = Outcome("message", IF ToStringThrows(requestId) THEN "TypeError" ELSE "ok")
               ELSE /\ outcome' = Outcome("message", "TypeError")
                    /\ UNCHANGED <<listeners, waits>>
    /\ UNCHANGED subscribed
    /\ UNCHANGED <<svgVars, runsVars>>

\* a callback that empties the Registry instead of deleting the one entry
messageHandlerClearsAll(h, message, again) ==
    /\ subscribed[h]
    /\ message \in channel[h]
    /\ channel' = IF again THEN channel ELSE [channel EXCEPT ![h] = @ \ {message}]
    /\ transportError' = FALSE
    /\ IF JSONparseThrows(message)
       THEN /\ outcome' = Outcome("message", "SyntaxError")
            /\ UNCHANGED <<listeners, waits>>
       ELSE IF GetThrows(JSONparse(message))
       THEN /\ outcome' = Outcome("message", "TypeError")
            /\ UNCHANGED <<listeners, waits>>
       ELSE LET parsedMessasge == JSONparse(message)
                requestId == Get(parsedMessasge, "requestId")
                w == listenersGet(h, requestId)
            IN /\ outcome' = Outcome("message", IF ToStringThrows(requestId) THEN "TypeError" ELSE "ok")
               /\ IF w # 0
                  THEN /\ waits' = [waits EXCEPT ![w] =
                                      listener(@, Get(parsedMessasge, "httpResponse"))]
                       /\ listeners' = [listeners EXCEPT ![h] = [c \in RequestIds |-> 0]]
                  ELSE UNCHANGED <<listeners, waits>>
    /\ UNCHANGED subscribed
    /\ UNCHANGED <<svgVars, runsVars>>

\* the callback init() subscribes, run on a payload the transport delivers;
\* at-least-once delivery: the transport may deliver the payload again
messageHandler(h, message, again) ==
    /\ subscribed[h]
    /\ message \in channel[h]
    /\ channel' = IF again THEN channel ELSE [channel EXCEPT ![h] = @ \ {message}]
    /\ transportError' = FALSE
    /\ IF JSONparseThrows(message)
       THEN /\ outcome' = Outcome("message", "SyntaxError")
            /\ UNCHANGED <<listeners, waits>>
       ELSE IF GetThrows(JSONparse(message))
       THEN /\ outcome' = Outcome("message", "TypeError")
            /\ UNCHANGED <<listeners, waits>>
       ELSE LET parsedMessasge == JSONparse(message)
                requestId == Get(parsedMessasge, "requestId")
                w == listenersGet(h, requestId)
            IN /\ outcome' = Outcome("message", IF ToStringThrows(requestId) THEN "TypeError" ELSE "ok")
               /\ IF w # 0
                  THEN /\ waits' = [waits EXCEPT ![w] =
                                      listener(@, Get(parsedMessasge, "httpResponse"))]
                       /\ listeners' = [listeners EXCEPT ![h][requestId.v] = 0]
                  ELSE UNCHANGED <<listeners, waits>>
    /\ UNCHANGED subscribed
    /\ UNCHANGED <<svgVars, runsVars>>

\* pubSub.unsubscribe: what was in flight to the subscriber is not delivered
pubSubUnsubscribe(ch) == [channel EXCEPT ![ch] = {}]

\* a shutdown that also drops the resolvers of the process
shutdownCancels(h, unsubscribeOk) ==
    /\ transportError' = ~unsubscribeOk
    /\ subscribed' = [subscribed EXCEPT ![h] = @ /\ ~unsubscribeOk]
    /\ channel' = IF unsubscribeOk THEN pubSubUnsubscribe(h) ELSE channel
    /\ outcome' = Outcome("shutdown", IF unsubscribeOk THEN "ok" ELSE "rejected")
    /\ listeners' = [listeners EXCEPT ![h] = [c \in RequestIds |-> 0]]
    /\ UNCHANGED waits
    /\ UNCHANGED <<svgVars, runsVars>>

shutdown(h, unsubscribeOk) ==
    /\ transportError' = ~unsubscribeOk
    /\ subscribed' = [subscribed EXCEPT ![h] = @ /\ ~unsubscribeOk]
    /\ channel' = IF unsubscribeOk THEN pubSubUnsubscribe(h) ELSE channel
    /\ outcome' = Outcome("shutdown", IF unsubscribeOk THEN "ok" ELSE "rejected")
    /\ UNCHANGED <<listeners, waits>>
    /\ UNCHANGED <<svgVars, runsVars>>

Next ==
    \/ \E t \in TransportCalls : init(t[1], t[2])
    \/ \E u \in ListenCalls : listen(u[1], u[2], u[3])
    \/ \E w \in 1..MaxWaits : timeoutCallback(w)
    \/ \E p \in PublishCalls : publish(p[1], p[2], p[3], TRUE)
    \/ \E p \in FailingPublishCalls : publish(p[1], p[2], p[3], FALSE)
    \/ \E f \in ForeignPublishCalls : foreignPublish(f[1], f[2])
    \/ \E h \in HANDLER_IDS, m \in Payloads, again \in BOOLEAN : messageHandler(h, m, again)
    \/ \E t \in TransportCalls : shutdown(t[1], t[2])

Spec == Init /\ [][Next]_allVars

\* the event loop runs every timer that is armed
FairSpec == Spec /\ WF_vars(\E w \in 1..MaxWaits : timeoutCallback(w))

(* --------------------------- canvas: SvgDrawer ------------------------ *)

ARC_LENGTH == 15

\* The numbers the reductions below work on lie between the two safe
\* integers, -(2^53 - 1) and 2^53 - 1, which do not fit the 32 bits of an
\* integer here: such a number n is held as two limbs, n = hi * 2^27 + lo
\* with 0 <= lo < 2^27, and exactly one pair of limbs denotes it.
Limb == 2^27
SafeInteger(hi, lo) == [hi |-> hi, lo |-> lo]
\* the number of a coordinate
ToNumber(n) == SafeInteger(n \div Limb, n % Limb)
\* a + n for a coordinate difference n, as the double addition gives it: the
\* sum itself up to 2^53 either way; beyond that (and below 2^54) doubles are
\* the even integers, and an odd sum is rounded to its neighbour with the
\* even mantissa, the multiple of 4
plus(a, n) ==
    LET sum == SafeInteger(a.hi + ((a.lo + n) \div Limb), (a.lo + n) % Limb)
        beyond == \/ sum.hi > 2^26
                  \/ sum.hi = 2^26 /\ sum.lo > 0
                  \/ sum.hi < 0 - 2^26
    IN IF beyond /\ sum.lo % 2 = 1
       THEN IF sum.lo % 4 = 1
            THEN SafeInteger(sum.hi, sum.lo - 1)
            ELSE SafeInteger(sum.hi + ((sum.lo + 1) \div Limb), (sum.lo + 1) % Limb)
       ELSE sum
lessOrEqual(a, b) == a.hi < b.hi \/ (a.hi = b.hi /\ a.lo <= b.lo)

\* 2^53 - 1 = (2^26 - 1) * 2^27 + (2^27 - 1)
MAX_SAFE_INTEGER == SafeInteger(2^26 - 1, 2^27 - 1)
\* -(2^53 - 1) = -(2^26) * 2^27 + 1
MIN_SAFE_INTEGER == SafeInteger(0 - 2^26, 1)

\* arguments the builder methods are called with
MoveCalls == {<<0, 0>>, <<40, 10>>}
LineCalls == {-20, 20}
ArcCalls == {<<TRUE, FALSE>>, <<FALSE, TRUE>>}
ArrowCalls == {FALSE, TRUE}
OffsetCalls == {<<-7, 5>>, <<5, 0>>, <<0, -7>>}

max(a, b) == IF lessOrEqual(b, a) THEN a ELSE b
min(a, b) == IF lessOrEqual(a, b) THEN a ELSE b

\* the loop of positions(): the pen position after each operation
RECURSIVE positionsFrom(_, _, _, _)
positionsFrom(operations, i, currentPositionX, currentPositionY) ==
    IF i > Len(operations) THEN <<>>
    ELSE LET operation == operations[i]
             x == CASE operation.type = "arc" ->
                         currentPositionX + (IF operation.isRight THEN ARC_LENGTH ELSE 0 - ARC_LENGTH)
                    [] operation.type = "M" -> operation.x
                    [] operation.type = "h" -> currentPositionX + operation.delta
                    [] OTHER -> currentPositionX
             y == CASE operation.type = "arc" -> currentPositionY + ARC_LENGTH
                    [] operation.type = "M" -> operation.y
                    [] operation.type = "v" -> currentPositionY + operation.delta
                    [] OTHER -> currentPositionY
         IN <<[x |-> x, y |-> y]>> \o positionsFrom(operations, i + 1, x, y)

positions(operations) ==
    IF Len(operations) = 0 THEN <<>>
    ELSE positionsFrom(operations, 1,
                       IF operations[1].type = "M" THEN operations[1].x ELSE 0,
                       IF operations[1].type = "M" THEN operations[1].y ELSE 0)

maximumX(operations) ==
    LET p == positions(operations)
        acc[i \in 0..Len(p)] == IF i = 0 THEN MIN_SAFE_INTEGER ELSE max(acc[i - 1], ToNumber(p[i].x))
    IN acc[Len(p)]

minimumX(operations) ==
    LET p == positions(operations)
        acc[i \in 0..Len(p)] == IF i = 0 THEN MAX_SAFE_INTEGER ELSE min(acc[i - 1], ToNumber(p[i].x))
    IN acc[Len(p)]

maximumY(operations) ==
    LET p == positions(operations)
        acc[i \in 0..Len(p)] == IF i = 0 THEN MIN_SAFE_INTEGER ELSE max(acc[i - 1], ToNumber(p[i].y))
    IN acc[Len(p)]

minimumY(operations) ==
    LET p == positions(operations)
        acc[i \in 0..Len(p)] == IF i = 0 THEN MAX_SAFE_INTEGER ELSE min(acc[i - 1], ToNumber(p[i].y))
    IN acc[Len(p)]

\* every method returns a new SvgDrawer and leaves the one it is called on
\* alone: `drawer` is this.operations, `returned` the operations of the result
merge(child) ==
    /\ Len(drawer) + Len(child) <= MaxOps
    /\ returned' = drawer \o child
    /\ UNCHANGED drawer
    /\ UNCHANGED <<vars, runsVars>>

\* differs from offset: only the first operation is shifted
offsetFirstOnly(dx, dy) ==
    /\ returned' = [i \in 1..Len(drawer) |->
                       LET value == drawer[i]
                       IN IF value.type = "M" /\ i = 1
                          THEN [value EXCEPT !.x = value.x + dx, !.y = value.y + dy]
                          ELSE value]
    /\ UNCHANGED drawer
    /\ UNCHANGED <<vars, runsVars>>

offset(dx, dy) ==
    /\ returned' = [i \in 1..Len(drawer) |->
                       LET value == drawer[i]
                       IN IF value.type = "M"
                          THEN [value EXCEPT !.x = value.x + dx, !.y = value.y + dy]
                          ELSE value]
    /\ UNCHANGED drawer
    /\ UNCHANGED <<vars, runsVars>>

drawVerticalLine(dy) ==
    /\ Len(drawer) < MaxOps
    /\ returned' = Append(drawer, [type |-> "v", delta |-> dy])
    /\ UNCHANGED drawer
    /\ UNCHANGED <<vars, runsVars>>

drawHorizontalLine(dx) ==
    /\ Len(drawer) < MaxOps
    /\ returned' = Append(drawer, [type |-> "h", delta |-> dx])
    /\ UNCHANGED drawer
    /\ UNCHANGED <<vars, runsVars>>

move(dx, dy) ==
    /\ Len(drawer) < MaxOps
    /\ returned' = Append(drawer, [type |-> "M", x |-> dx, y |-> dy])
    /\ UNCHANGED drawer
    /\ UNCHANGED <<vars, runsVars>>

drawArc(isRight, sweep) ==
    LET xSign == IF isRight THEN "" ELSE "-"
        ySign == ""
        shouldSweep == IF sweep THEN 1 ELSE 0
        content == "a " \o ToString(ARC_LENGTH) \o " " \o ToString(ARC_LENGTH)
                   \o " 0 0 " \o ToString(shouldSweep) \o " "
                   \o xSign \o ToString(ARC_LENGTH) \o " "
                   \o ySign \o ToString(ARC_LENGTH)
    IN /\ Len(drawer) < MaxOps
       /\ returned' = Append(drawer, [type |-> "arc", isRight |-> isRight, content |-> content])
       /\ UNCHANGED drawer
       /\ UNCHANGED <<vars, runsVars>>

arrow(forLoopReturningLine) ==
    /\ Len(drawer) < MaxOps
    /\ returned' = Append(drawer,
                          IF ~forLoopReturningLine
                          THEN [type |-> "arrow", content |-> "m6 -6 l-6 6 m-6 -6 l6 6"]
                          ELSE [type |-> "arrow", content |-> " m0 -6 l6 6  m-6 0 m6 0 l-6 6 m3.7 -6"])
    /\ UNCHANGED drawer
    /\ UNCHANGED <<vars, runsVars>>

\* method chaining, SvgDrawer.empty().move(..).drawVerticalLine(..): the next
\* call is made on the drawer a builder call returned
chain ==
    /\ Len(returned) > Len(drawer)
    /\ drawer' = returned
    /\ UNCHANGED returned
    /\ UNCHANGED <<vars, runsVars>>

SvgNext ==
    \/ merge(returned)
    \/ \E d \in OffsetCalls : offset(d[1], d[2])
    \/ \E dy \in LineCalls : drawVerticalLine(dy)
    \/ \E dx \in LineCalls : drawHorizontalLine(dx)
    \/ \E m \in MoveCalls : move(m[1], m[2])
    \/ \E a \in ArcCalls : drawArc(a[1], a[2])
    \/ \E forLoopReturningLine \in ArrowCalls : arrow(forLoopReturningLine)
    \/ chain

SvgSpec == Init /\ [][SvgNext]_allVars

(* ------------------------- dashboard: runs table ---------------------- *)

ExecutionOutputStatus ==
    {"FAILED", "INTERNAL_ERROR", "QUOTA_EXCEEDED", "RUNNING",
     "SUCCEEDED", "TIMEOUT", "PAUSED", "STOPPED"}

FlowRerunStrategy == {"FROM_START", "FROM_FAILED_STEP"}

FlowRun(id, status) == [id |-> id, status |-> status]

\* the rows the table shows: NumRuns runs, in any statuses
RunsInit ==
    /\ WatcherInit
    /\ drawer = <<>>
    /\ returned = <<>>
    /\ runs \in [1..NumRuns -> {FlowRun(id, status) : id \in 1..NumRuns, status \in ExecutionOutputStatus}]
    /\ \A i \in 1..NumRuns : runs[i].id = i
    /\ lastRerun = NoRerun

isRerunEnabled(run) ==
    LET enabledStatuses == <<"FAILED", "INTERNAL_ERROR", "QUOTA_EXCEEDED">>
    IN \E k \in 1..Len(enabledStatuses) : enabledStatuses[k] = run.status

\* differs from rerunFlow: the row keeps its status
rerunFlowKeepsStatus(i, strategy) ==
    /\ lastRerun' = [id |-> runs[i].id, strategy |-> strategy, propagationStopped |-> TRUE]
    /\ UNCHANGED runs
    /\ UNCHANGED <<vars, svgVars>>

\* rerunFlow(run, strategy, event) on row i: the request, the status, the event
rerunFlow(i, strategy) ==
    /\ lastRerun' = [id |-> runs[i].id, strategy |-> strategy, propagationStopped |-> TRUE]
    /\ runs' = [runs EXCEPT ![i].status = "RUNNING"]
    /\ UNCHANGED <<vars, svgVars>>

\* the data source delivers a row again with the status the server has now
dataSourceUpdate(i, status) ==
    /\ runs[i].status # status
    /\ runs' = [runs EXCEPT ![i].status = status]
    /\ UNCHANGED lastRerun
    /\ UNCHANGED <<vars, svgVars>>

RunsNext ==
    \/ \E i \in 1..NumRuns, strategy \in FlowRerunStrategy : rerunFlow(i, strategy)
    \/ \E i \in 1..NumRuns, status \in ExecutionOutputStatus : dataSourceUpdate(i, status)

RunsSpec == RunsInit /\ [][RunsNext]_allVars

(* ------------------------------- claims ------------------------------- *)
Resolved(w) == w \in WaitIds /\ waits[w].state \in {"DELIVERED", "TIMED_OUT"}

\* the Registry entry of wait w: listeners of its process still maps its id to it
Registered(w) == w \in WaitIds /\ listeners[waits[w].handler][waits[w].requestId] = w

\* C1: a wait started by listen(c, true) resolves exactly once: once it is
\* DELIVERED or TIMED_OUT neither its state nor the value it resolved with
\* ever changes, under all interleavings of deliveries, duplicates and its
\* timer; and with its timer running it does resolve.
ResolvesExactlyOnce ==
    /\ [][\A w \in WaitIds :
            waits[w].timeoutRequest /\ waits[w].state # "ARMED"
                => /\ waits'[w].state = waits[w].state
                   /\ waits'[w].value = waits[w].value]_vars
    /\ []<>(\A w \in WaitIds : waits[w].timeoutRequest => Resolved(w))

\* both terminal states are reached in one behaviour: one wait won by the
\* delivery, one by its timer, and the latter was then sent an envelope too
BothRacesWon ==
    \E v, w \in WaitIds :
        /\ waits[v].timeoutRequest /\ waits[v].state = "DELIVERED"
        /\ waits[v].timeout = "cleared"
        /\ waits[w].timeoutRequest /\ waits[w].state = "TIMED_OUT"
        /\ waits[w].value = defaultResponse
        /\ ~Registered(w)
        /\ \A u \in WaitIds \ {w} :
              <<waits[u].handler, waits[u].requestId>> #
              <<waits[w].handler, waits[w].requestId>>

\* C2: the Registry holds an entry for an id only while the wait it belongs
\* to is unresolved.
RegistryOnlyHoldsPending ==
    \A h \in HANDLER_IDS, c \in RequestIds :
        listeners[h][c] # 0 => waits[listeners[h][c]].state = "ARMED"

\* a value JSON represents as itself: no NaN and no undefined inside
RECURSIVE RepresentableInJSON(_)
RepresentableInJSON(x) ==
    CASE x.t \in {"NaN", "undefined"} -> FALSE
      [] x.t = "object" -> \A k \in DOMAIN x.v : RepresentableInJSON(x.v[k])
      [] OTHER -> TRUE

JSONroundTrip(x) == JSONparse(JSONstringify(x))

\* the envelope publish(c, h, r) sends is delivered to process h while the
\* Registry entry of c there is a wait with its timer still running
DeliveredBeforeExpiry(p, w) ==
    /\ outcome'.op = "message"
    /\ w = listeners[p[2]][p[1]]
    /\ waits[w].timeoutRequest
    /\ waits[w].timeout = "armed"
    /\ \E again \in BOOLEAN :
          messageHandler(p[2], JSONstringify(EngineResponseWithId(p[1], p[3])), again)

\* C3 as stated: listen(c, true) followed by publish(c, own id, R) delivered
\* before the timer expires resolves the wait with exactly R.
DeliveredResultIsExactlyR ==
    [][\A p \in PublishCalls, w \in WaitIds :
          DeliveredBeforeExpiry(p, w)
              => waits'[w].state = "DELIVERED" /\ waits'[w].value = p[3]]_vars

\* C3 amended: the wait resolves, by delivery and not with the fallback,
\* with what JSON.parse(JSON.stringify(R)) yields; that is R itself whenever
\* R is representable in JSON.
DeliveredResultIsRoundTrip ==
    [][\A p \in PublishCalls, w \in WaitIds :
          DeliveredBeforeExpiry(p, w)
              => /\ waits'[w].state = "DELIVERED"
                 /\ waits'[w].value = JSONroundTrip(p[3])
                 /\ waits'[w].value # defaultResponse
                 /\ RepresentableInJSON(p[3]) => waits'[w].value = p[3]]_vars

\* a wait with a timeout was resolved by delivery, its timer cancelled, with
\* the Result of the spec's scenario
ResolvedWithPublished ==
    \E w \in WaitIds :
        /\ waits[w].timeoutRequest /\ waits[w].state = "DELIVERED"
        /\ waits[w].timeout = "cleared"
        /\ waits[w].value = ROk
        /\ outcome = Outcome("message", "ok")

\* the correlation id of a payload, when it is an envelope
EnvelopeFor(message, c) ==
    /\ ~JSONparseThrows(message)
    /\ Get(JSONparse(message), "requestId") = Str(c)

NoPendingWait(h, c) ==
    \A w \in WaitIds :
        waits[w].handler = h /\ waits[w].requestId = c => waits[w].state # "ARMED"

\* C4: an envelope delivered for an id with no pending wait (never
\* registered or already resolved) resolves no wait and changes no resolved
\* value (no wait changes at all), raises no error, and leaves every other
\* Registry entry unchanged.
UnmatchedEnvelopeIsNoOp ==
    [][\A h \in HANDLER_IDS, c \in RequestIds, again \in BOOLEAN :
          \A m \in channel[h] :
              (outcome'.op = "message" /\ EnvelopeFor(m, c) /\ NoPendingWait(h, c)
                  /\ messageHandler(h, m, again))
                  => /\ waits' = waits
                     /\ outcome'.result = "ok"
                     /\ \A g \in HANDLER_IDS, d \in RequestIds :
                           <<g, d>> # <<h, c>> => listeners'[g][d] = listeners[g][d]]_vars

\* an envelope reached a wait that had already timed out (its entry is gone
\* and no later wait used the id) and the fallback it resolved with stands
LateEnvelopeAfterTimeout ==
    \E w \in WaitIds :
        /\ waits[w].state = "TIMED_OUT" /\ waits[w].value = defaultResponse
        /\ ~Registered(w)
        /\ \A u \in WaitIds \ {w} :
              <<waits[u].handler, waits[u].requestId>> #
              <<waits[w].handler, waits[w].requestId>>
        /\ outcome = Outcome("message", "ok")

\* C5: a wait started by listen(c, true) does not stay pending: unless an
\* envelope is delivered to it first, its timer resolves it, and the value
\* is then the fallback Result: status 204, empty body, empty headers.
TimeoutResolvesWithFallback ==
    []<>(\A w \in WaitIds :
            waits[w].timeoutRequest
                => \/ waits[w].state = "DELIVERED"
                   \/ /\ waits[w].state = "TIMED_OUT"
                      /\ Get(waits[w].value, "status") = Num(204)
                      /\ Get(waits[w].value, "body") = Obj(<<>>)
                      /\ Get(waits[w].value, "headers") = Obj(<<>>))

\* the timer of a wait has just fired with no envelope delivered for its id
\* since the listen (its Registry entry is untouched): it holds the fallback
TimedOutWithoutDelivery ==
    \E w \in WaitIds :
        /\ waits[w].timeoutRequest /\ waits[w].state = "TIMED_OUT"
        /\ waits[w].timeout = "fired"
        /\ waits[w].value = defaultResponse
        /\ Registered(w)
        /\ outcome = Outcome("timeout", "ok")

\* C6: a wait started by listen(c, false) has no timer, and a step that
\* resolves it is the delivery, on its own process, of an envelope for c.
UntimedWaitResolvedOnlyByDelivery ==
    /\ [](\A w \in WaitIds : ~waits[w].timeoutRequest => waits[w].timeout = "none")
    /\ [][\A w \in WaitIds :
            (~waits[w].timeoutRequest /\ waits[w].state = "ARMED"
                /\ waits'[w].state # "ARMED")
                => /\ waits'[w].state = "DELIVERED"
                   /\ \E m \in channel[waits[w].handler], again \in BOOLEAN :
                         /\ EnvelopeFor(m, waits[w].requestId)
                         /\ messageHandler(waits[w].handler, m, again)]_vars

\* a wait without a timeout is still pending after the timer of another
\* wait has fired and an envelope for another id has been delivered
UntimedWaitOutlastsTimers ==
    \E v, w \in WaitIds :
        /\ ~waits[w].timeoutRequest /\ waits[w].state = "ARMED" /\ Registered(w)
        /\ waits[v].state = "TIMED_OUT" /\ ~Registered(v)
        /\ waits[v].requestId # waits[w].requestId

\* C7: publish to a handler identity with no subscriber ends without error
\* (unless the transport call itself fails) and changes nothing: the message
\* is not kept, no channel holds a payload for a process that is not
\* subscribed, and init receives nothing.
PublishWithoutSubscriberIsLost ==
    /\ [](\A h \in HANDLER_IDS : ~subscribed[h] => channel[h] = {})
    /\ [][\A p \in PublishCalls, publishOk \in BOOLEAN :
            (outcome'.op = "publish" /\ ~subscribed[p[2]]
                /\ publish(p[1], p[2], p[3], publishOk))
                => /\ publishOk => outcome'.result = "ok"
                   /\ UNCHANGED <<channel, listeners, waits, subscribed>>]_vars
    /\ [][\A h \in HANDLER_IDS, ok \in BOOLEAN :
            (outcome'.op = "init" /\ init(h, ok))
                => UNCHANGED <<channel, listeners, waits>>]_vars

\* a publish ran while no process was subscribed and a wait was pending:
\* nothing is in flight and the wait is still pending
PublishedToNobody ==
    /\ outcome = Outcome("publish", "ok")
    /\ \A h \in HANDLER_IDS : ~subscribed[h] /\ channel[h] = {}
    /\ \E w \in WaitIds : waits[w].state = "ARMED" /\ Registered(w)

\* the Results published for id c to handler h, as they arrive
PublishedFor(h, c) ==
    {JSONroundTrip(p[3]) : p \in {q \in PublishCalls : q[1] = c /\ q[2] = h}}

\* C8: publish(c, H, R) reaches the channel of H only (a step that changes the
\* channel of another process is no publish to H), a delivery on the channel
\* of H touches the Registry and the waits of H only (a step that changes
\* those of another process is no delivery on the channel of H), and so a
\* wait is resolved by delivery only with a Result published to its own
\* process.
OnlyTargetInstanceResolves ==
    /\ [][outcome'.op = "publish" =>
            \A p \in PublishCalls, publishOk \in BOOLEAN :
                (\E g \in HANDLER_IDS \ {p[2]} : channel'[g] # channel[g])
                    => ~publish(p[1], p[2], p[3], publishOk)]_vars
    /\ [][outcome'.op = "message" =>
            \A h \in HANDLER_IDS :
                (\/ \E g \in HANDLER_IDS \ {h} : listeners'[g] # listeners[g]
                 \/ \E w \in WaitIds : waits[w].handler # h /\ waits'[w] # waits[w])
                    => \A m \in channel[h], again \in BOOLEAN :
                          ~messageHandler(h, m, again)]_vars
    /\ [](\A w \in WaitIds :
            waits[w].state = "DELIVERED"
                => waits[w].value \in PublishedFor(waits[w].handler, waits[w].requestId))

\* the same id is waited for on both processes, both subscribed; the wait of
\* one was resolved by a delivery, the wait of the other is still pending
SameIdOtherInstancePending ==
    \E v, w \in WaitIds :
        /\ waits[v].handler # waits[w].handler
        /\ waits[v].requestId = waits[w].requestId
        /\ waits[v].state = "DELIVERED"
        /\ waits[w].state = "ARMED" /\ Registered(w)
        /\ subscribed[waits[w].handler]
        /\ outcome = Outcome("message", "ok")

\* C9: a payload that is not decodable is dropped: the handler resolves no
\* wait, leaves the Registry unchanged and lets no error escape.
MalformedEnvelopeDropped ==
    [][\A h \in HANDLER_IDS, m \in ForeignPayloads, again \in BOOLEAN :
          (outcome'.op = "message" /\ messageHandler(h, m, again))
              => /\ outcome'.result = "ok"
                 /\ UNCHANGED <<listeners, waits>>]_vars

\* C10: a failure of subscribe in init, or of unsubscribe in shutdown, ends
\* the operation as a rejection, with the Registry unchanged (and so does a
\* failure of the transport's publish, the only other transport call).
TransportFailurePropagates ==
    /\ [](transportError => outcome.result = "rejected")
    /\ [][transportError'
            => /\ outcome'.op \in {"init", "shutdown", "publish"}
               /\ listeners' = listeners
               /\ waits' = waits]_vars

\* subscribe failed in init while a wait was registered
InitFailedWithRegistryPopulated ==
    /\ transportError
    /\ outcome = Outcome("init", "rejected")
    /\ \E w \in WaitIds : Registered(w)

\* C11: delivery to a wait started by listen(c, true) cancels its timer: the
\* timer of a DELIVERED wait is cleared, so its callback can never run.
TimerCancelledOnDelivery ==
    \A w \in WaitIds :
        (waits[w].timeoutRequest /\ waits[w].state = "DELIVERED")
            => /\ waits[w].timeout = "cleared"
               /\ ~ENABLED timeoutCallback(w)

\* a wait was resolved by delivery and its timer cleared, and the timer
\* that has just fired is that of another wait
TimerOfAnotherWaitFired ==
    \E w \in WaitIds :
        /\ waits[w].timeoutRequest /\ waits[w].state = "DELIVERED"
        /\ waits[w].timeout = "cleared"
        /\ outcome = Outcome("timeout", "ok")

SameKey(v, w) ==
    /\ waits[v].handler = waits[w].handler
    /\ waits[v].requestId = waits[w].requestId

\* C12: the Registry holds one resolver per id and process, that of the
\* latest listen for the id; an envelope delivered while several waits for
\* the id are pending resolves the latest one (the one registered) with
\* what it carries and leaves every earlier one as it was.
LastWriterWins ==
    /\ [](\A h \in HANDLER_IDS, c \in RequestIds :
            listeners[h][c] # 0
                => /\ waits[listeners[h][c]].handler = h
                   /\ waits[listeners[h][c]].requestId = c
                   /\ \A u \in WaitIds :
                         SameKey(u, listeners[h][c]) => u <= listeners[h][c])
    /\ [][\A h \in HANDLER_IDS, again \in BOOLEAN :
          \A m \in channel[h] :
            (outcome'.op = "message" /\ ~JSONparseThrows(m) /\ messageHandler(h, m, again))
                => \A v, w \in WaitIds :
                      (v < w /\ SameKey(v, w) /\ Registered(w) /\ waits[w].handler = h
                          /\ EnvelopeFor(m, waits[w].requestId)
                          /\ waits[v].state = "ARMED" /\ waits[w].state = "ARMED")
                          => /\ waits'[v] = waits[v]
                             /\ waits'[w].state = "DELIVERED"
                             /\ waits'[w].value = Get(JSONparse(m), "httpResponse")]_vars

\* of two waits for one id on one process the later has been resolved by a
\* delivery and the earlier is still pending
SecondCallerResolvedFirstPending ==
    \E v, w \in WaitIds :
        /\ v < w /\ SameKey(v, w)
        /\ waits[v].state = "ARMED"
        /\ waits[w].state = "DELIVERED"
        /\ outcome = Outcome("message", "ok")

\* nothing about the waits for ids other than c on process h changes: their
\* Registry entries, their timers, their states and values
OtherIdsUntouched(h, c) ==
    /\ \A d \in RequestIds \ {c} : listeners'[h][d] = listeners[h][d]
    /\ \A u \in WaitIds :
          (waits[u].handler = h /\ waits[u].requestId # c) => waits'[u] = waits[u]

\* C13: waits with distinct ids on one process do not interfere: the
\* delivery of an envelope for c, and the expiry of the timer of a wait for
\* c, leave the entry, timer and resolution of every wait for d # c as is.
DistinctIdsDoNotInterfere ==
    /\ [][\A h \in HANDLER_IDS, c \in RequestIds, again \in BOOLEAN :
          \A m \in channel[h] :
            (outcome'.op = "message" /\ EnvelopeFor(m, c) /\ messageHandler(h, m, again))
                => OtherIdsUntouched(h, c)]_vars
    /\ [][\A w \in WaitIds :
            (outcome'.op = "timeout" /\ timeoutCallback(w))
                => OtherIdsUntouched(waits[w].handler, waits[w].requestId)]_vars

\* on one process the wait for one id has been resolved by a delivery while
\* the wait for another id is pending, registered, its timer running
OtherIdStillArmed ==
    \E v, w \in WaitIds :
        /\ waits[v].handler = waits[w].handler
        /\ waits[v].requestId # waits[w].requestId
        /\ waits[v].state = "DELIVERED"
        /\ waits[w].state = "ARMED" /\ Registered(w) /\ waits[w].timeout = "armed"
        /\ outcome = Outcome("message", "ok")

\* C14: shutdown unsubscribes and leaves the Registry, the waits and their
\* timers as they were; on a process that is not subscribed the timer of a
\* pending wait still resolves it with the fallback, and no wait is
\* resolved by delivery, whatever is published.
ShutdownLeavesWaits ==
    /\ [][\A h \in HANDLER_IDS, ok \in BOOLEAN :
            (outcome'.op = "shutdown" /\ shutdown(h, ok))
                => /\ listeners' = listeners
                   /\ waits' = waits
                   /\ ok => ~subscribed'[h]]_vars
    /\ [][\A w \in WaitIds :
            (outcome'.op = "timeout" /\ ~subscribed[waits[w].handler]
                /\ waits[w].state = "ARMED" /\ timeoutCallback(w))
                => /\ waits'[w].state = "TIMED_OUT"
                   /\ waits'[w].value = defaultResponse]_vars
    /\ [][\A w \in WaitIds :
            (~subscribed[waits[w].handler] /\ waits[w].state = "ARMED")
                => waits'[w].state # "DELIVERED"]_vars

\* shutdown has just unsubscribed a process that was subscribed (a wait of
\* it was resolved by a delivery) and on which a wait is pending,
\* registered, its timer running
PendingWaitSurvivesShutdown ==
    /\ outcome = Outcome("shutdown", "ok")
    /\ \E v, w \in WaitIds :
          /\ waits[v].handler = waits[w].handler /\ waits[v].state = "DELIVERED"
          /\ ~subscribed[waits[w].handler]
          /\ waits[w].state = "ARMED" /\ Registered(w) /\ waits[w].timeout = "armed"

\* C15: envelopes are not kept for future waits: an envelope that finds no
\* entry for its id changes nothing, a listen starts a pending wait whatever
\* was delivered before it, and that wait is then resolved only by an
\* envelope for its id delivered in that very step, or by its timer with
\* the fallback.
EnvelopesNotBuffered ==
    /\ [][\A h \in HANDLER_IDS, again \in BOOLEAN :
          \A m \in channel[h] :
            (outcome'.op = "message" /\ ~JSONparseThrows(m)
                /\ listenersGet(h, Get(JSONparse(m), "requestId")) = 0
                /\ messageHandler(h, m, again))
                => listeners' = listeners /\ waits' = waits]_vars
    /\ [][\A u \in ListenCalls :
            (outcome'.op = "listen" /\ listen(u[1], u[2], u[3]))
                => /\ waits'[Len(waits) + 1].state = "ARMED"
                   /\ waits'[Len(waits) + 1].value = Undefined
                   /\ listeners'[u[1]][u[2]] = Len(waits) + 1]_vars
    /\ [][\A w \in WaitIds :
            (waits[w].state = "ARMED" /\ waits'[w].state # "ARMED")
                => \/ /\ waits'[w].state = "DELIVERED"
                      /\ outcome'.op = "message"
                      /\ \E m \in channel[waits[w].handler] :
                            /\ EnvelopeFor(m, waits[w].requestId)
                            /\ waits'[w].value = Get(JSONparse(m), "httpResponse")
                   \/ /\ waits'[w].state = "TIMED_OUT"
                      /\ waits[w].timeoutRequest
                      /\ outcome'.op = "timeout"
                      /\ waits'[w].value = defaultResponse]_vars

\* an envelope has just been delivered on a process where listen was never
\* called: it was dropped
EnvelopeDroppedBeforeAnyListen ==
    /\ outcome = Outcome("message", "ok")
    /\ waits = <<>>
    /\ \A h \in HANDLER_IDS, c \in RequestIds : listeners[h][c] = 0

\* C16: the timer of an earlier wait leaves a later wait for the same id
\* alone: its expiry resolves only its own wait, with the fallback, every
\* other wait keeps its Registry entry and its state, and the later wait is
\* still resolved by the next envelope for the id.
EarlierTimerSparesLaterWait ==
    /\ [][outcome'.op = "timeout" =>
            \A w \in WaitIds :
                timeoutCallback(w)
                    => /\ waits[w].state = "ARMED"
                          => /\ waits'[w].state = "TIMED_OUT"
                             /\ waits'[w].value = defaultResponse
                       /\ \A u \in WaitIds \ {w} :
                             /\ waits'[u] = waits[u]
                             /\ Registered(u) => Registered(u)']_vars
    /\ [][outcome'.op = "message" =>
            \A v, w \in WaitIds :
                (/\ v < w /\ SameKey(v, w)
                 /\ waits[v].timeoutRequest /\ waits[v].state = "TIMED_OUT"
                 /\ Registered(w) /\ waits[w].state = "ARMED")
                    => \A m \in channel[waits[w].handler], again \in BOOLEAN :
                          (/\ EnvelopeFor(m, waits[w].requestId)
                           /\ messageHandler(waits[w].handler, m, again))
                              => /\ waits'[w].state = "DELIVERED"
                                 /\ waits'[v] = waits[v]]_vars

\* the timer of the earlier of two waits for one id has just fired: the
\* earlier holds the fallback, the later is pending and still registered
LaterWaitKeptAfterEarlierTimer ==
    \E v, w \in WaitIds :
        /\ v < w /\ SameKey(v, w)
        /\ waits[v].state = "TIMED_OUT" /\ waits[v].value = defaultResponse
        /\ waits[w].state = "ARMED" /\ Registered(w)
        /\ waits[w].timeout # "fired"
        /\ outcome = Outcome("timeout", "ok")

\* C17: when offset(dx, dy) is called on a drawer that is not empty and whose
\* first operation is a move, the returned drawer's minimumX and maximumX are
\* the original's plus dx, its minimumY and maximumY are the original's plus
\* dy, and the operations of the drawer it was called on are unchanged.
OffsetTranslatesBoundingBox ==
    [][\A d \in OffsetCalls :
         (/\ Len(drawer) > 0
          /\ drawer[1].type = "M"
          /\ offset(d[1], d[2]))
         => /\ minimumX(returned') = plus(minimumX(drawer), d[1])
            /\ maximumX(returned') = plus(maximumX(drawer), d[1])
            /\ minimumY(returned') = plus(minimumY(drawer), d[2])
            /\ maximumY(returned') = plus(maximumY(drawer), d[2])
            /\ drawer' = drawer]_svgVars

\* a drawer with two moves to different places and a third operation has
\* been offset by (-7, 5)
OffsetOfTwoMoves ==
    /\ Len(drawer) >= 3
    /\ drawer[1].type = "M"
    /\ \E i \in 2..Len(drawer) : drawer[i].type = "M" /\ drawer[i].x # drawer[1].x
    /\ \E i \in 2..Len(drawer) : drawer[i].type # "M"
    /\ Len(returned) = Len(drawer)
    /\ returned # drawer
    /\ minimumX(returned) = plus(minimumX(drawer), -7)
    /\ maximumX(returned) = plus(maximumX(drawer), -7)
    /\ minimumY(returned) = plus(minimumY(drawer), 5)
    /\ maximumY(returned) = plus(maximumY(drawer), 5)

\* C18: isRerunEnabled(run) is true exactly when run.status is FAILED,
\* INTERNAL_ERROR or QUOTA_EXCEEDED; rerunFlow sets the status of its run to
\* RUNNING for either strategy, so right after it isRerunEnabled(run) is
\* false, and it stays false as long as the status does not change.
RerunDisablesRerun ==
    /\ [](\A i \in 1..Len(runs) :
            isRerunEnabled(runs[i])
                <=> runs[i].status \in {"FAILED", "INTERNAL_ERROR", "QUOTA_EXCEEDED"})
    /\ [][\A i \in 1..Len(runs) :
            /\ \A strategy \in FlowRerunStrategy :
                   rerunFlow(i, strategy)
                   => runs'[i].status = "RUNNING" /\ ~isRerunEnabled(runs'[i])
            /\ (~isRerunEnabled(runs[i]) /\ runs'[i].status = runs[i].status)
                   => ~isRerunEnabled(runs'[i])]_runsVars

\* a rerun of a row has been requested, the row shows RUNNING and is not
\* offered for rerun, while another row still is
RerunRequestedRowRunning ==
    \E i, j \in 1..Len(runs) :
        /\ lastRerun.id = runs[i].id
        /\ lastRerun.propagationStopped
        /\ runs[i].status = "RUNNING"
        /\ ~isRerunEnabled(runs[i])
        /\ j # i
        /\ isRerunEnabled(runs[j])
====
